---- MODULE Spec2Model ----
(***************************************************************************)
(* A model of the CV parser service (src/app.py): the POST /parse-cv       *)
(* handler, the PDF text extractor, the LLM structurer with its JSON       *)
(* recovery chain, and GET /health, run as coroutines on one event loop.   *)
(*                                                                         *)
(* Texts are sequences of tokens.  Each token stands for a fixed piece of  *)
(* text:  "{" and "}" for the braces, "1" for the digit 1, "N" for a line  *)
(* feed, "F" for the three back-ticks of a fence, "J" for the word json.   *)
(* Messages are sequences of string pieces; concatenation is \o.           *)
(***************************************************************************)
EXTENDS Integers, Sequences, FiniteSets, TLC

VARIABLES
    apiKey,        \* whether CEREBRAS_API_KEY is set in the process environment
    running,       \* the request whose coroutine holds the event loop, or NoRequest
    pc,            \* pc[r]: where request r's handler stands
    req,           \* req[r]: the request as sent (operation, content type, upload)
    tempFiles,     \* the temporary files that exist on disk, named by their request
    trace,         \* trace[r]: what the handler of r has done so far
    response,      \* response[r]: the response sent for r
    completion,    \* structurer check: the completion handed to the recovery chain
    stage,         \* structurer check: "input" before, "done" after the chain ran
    outcome        \* structurer check: what the chain produced

vars == <<apiKey, running, pc, req, tempFiles, trace, response,
          completion, stage, outcome>>

(***************************************************************************)
(* Bounds of the model.                                                    *)
(***************************************************************************)
MaxLen == 7
MaxPages == 1
NumRequests == 2

Min(S) == CHOOSE x \in S : \A y \in S : x <= y
Max(S) == CHOOSE x \in S : \A y \in S : x >= y

(***************************************************************************)
(* Python values, as json.loads builds them and as the handler returns     *)
(* them.                                                                   *)
(***************************************************************************)
NoneVal == [kind |-> "None"]
IntVal(n) == [kind |-> "int", num |-> n]
StrVal(s) == [kind |-> "str", text |-> s]
ListVal(es) == [kind |-> "list", elems |-> es]
DictVal(its) == [kind |-> "dict", items |-> its]
Item(k, v) == [key |-> k, value |-> v]
IsMapping(v) == v.kind = "dict"

(***************************************************************************)
(* json.loads on a token text.  Over the tokens of the model the JSON      *)
(* documents are: a run of digits (an integer) and an opening brace,       *)
(* optional line feeds and a closing brace (the empty object), each with   *)
(* optional line feeds before and after.  A failure carries the message of *)
(* json.JSONDecodeError without its position suffix.                       *)
(***************************************************************************)
Alphabet == {"{", "}", "1", "N", "F", "J"}

IsWs(t) == t = "N"

RECURSIVE SkipWs(_, _)
SkipWs(text, i) ==
    IF i <= Len(text) /\ IsWs(text[i]) THEN SkipWs(text, i + 1) ELSE i

RECURSIVE SkipDigits(_, _)
SkipDigits(text, i) ==
    IF i <= Len(text) /\ text[i] = "1" THEN SkipDigits(text, i + 1) ELSE i

RECURSIVE Ones(_)
Ones(n) == IF n = 0 THEN 0 ELSE 10 * Ones(n - 1) + 1

DecodeOk(v, e) == [ok |-> TRUE, value |-> v, end |-> e, msg |-> <<>>]
DecodeFail(m) == [ok |-> FALSE, value |-> NoneVal, end |-> 0, msg |-> <<m>>]

\* The scanner at index i: the value that starts there and the index after it.
ScanOnce(text, i) ==
    IF i > Len(text) THEN DecodeFail("Expecting value")
    ELSE IF text[i] = "1"
         THEN LET e == SkipDigits(text, i)
              IN  DecodeOk(IntVal(Ones(e - i)), e)
    ELSE IF text[i] = "{"
         THEN LET j == SkipWs(text, i + 1)
              IN  IF j <= Len(text) /\ text[j] = "}"
                  THEN DecodeOk(DictVal(<<>>), j + 1)
                  ELSE DecodeFail("Expecting property name enclosed in double quotes")
    ELSE DecodeFail("Expecting value")

JsonLoads(text) ==
    LET r == ScanOnce(text, SkipWs(text, 1))
    IN  IF ~r.ok THEN r
        ELSE IF SkipWs(text, r.end) <= Len(text) THEN DecodeFail("Extra data")
        ELSE r

(***************************************************************************)
(* re.search with re.DOTALL, for the three patterns of the recovery chain. *)
(***************************************************************************)
MatchAt(text, i, pat) ==
    /\ i >= 1
    /\ i + Len(pat) - 1 <= Len(text)
    /\ SubSeq(text, i, i + Len(pat) - 1) = pat

Found(g) == [found |-> TRUE, group |-> g]
NotFound == [found |-> FALSE, group |-> <<>>]

\* open (.*?) close: the leftmost start, and from it the nearest close.
LazySearch(text, open, close) ==
    LET closes(i) == {j \in (i + Len(open))..Len(text) : MatchAt(text, j, close)}
        starts == {i \in 1..Len(text) : MatchAt(text, i, open) /\ closes(i) # {}}
    IN  IF starts = {} THEN NotFound
        ELSE LET i == Min(starts)
             IN  Found(SubSeq(text, i + Len(open), Min(closes(i)) - 1))

JsonFence == <<"F", "J", "N">>
PlainFence == <<"F", "N">>
FenceEnd == <<"N", "F">>

SearchJsonFence(text) == LazySearch(text, JsonFence, FenceEnd)
SearchPlainFence(text) == LazySearch(text, PlainFence, FenceEnd)

\* \{.*\} : from the first opening brace to the last closing brace after it.
SearchBraces(text) ==
    LET opens == {i \in 1..Len(text) : text[i] = "{"}
        closes(i) == {j \in (i + 1)..Len(text) : text[j] = "}"}
    IN  IF opens = {} \/ closes(Min(opens)) = {} THEN NotFound
        ELSE Found(SubSeq(text, Min(opens), Max(closes(Min(opens)))))

(***************************************************************************)
(* Exceptions.  str() of an HTTPException is "<status>: <detail>"; str()   *)
(* of any other exception is its message.                                  *)
(***************************************************************************)
HTTPException(s, d) == [http |-> TRUE, status |-> s, detail |-> d]
OtherException(m) == [http |-> FALSE, status |-> 0, detail |-> m]
StrOfException(e) ==
    IF e.http THEN <<ToString(e.status), ": ">> \o e.detail ELSE e.detail

Returned(v) == [ok |-> TRUE, value |-> v, exc |-> OtherException(<<>>)]
Raised(e) == [ok |-> FALSE, value |-> NoneVal, exc |-> e]

(***************************************************************************)
(* parse_cv_with_llm from the completion on: content is the text of the    *)
(* completion, or not a string at all.                                     *)
(***************************************************************************)
StrContent(t) == [isStr |-> TRUE, text |-> t]
NoContent == [isStr |-> FALSE, text |-> <<>>]

\* json.loads(candidate) inside the handler of the first JSONDecodeError.
LoadCandidate(cand) ==
    LET d == JsonLoads(cand)
    IN  IF d.ok THEN Returned(d.value) ELSE Raised(OtherException(d.msg))

RecoverJson(text) ==
    LET m1 == SearchJsonFence(text)
        m2 == SearchPlainFence(text)
        m3 == SearchBraces(text)
    IN  IF m1.found THEN LoadCandidate(m1.group)
        ELSE IF m2.found THEN LoadCandidate(m2.group)
        ELSE IF m3.found THEN LoadCandidate(m3.group)
        ELSE Raised(HTTPException(500, <<"Failed to parse LLM response as JSON">>))

DecodeContent(content) ==
    IF ~content.isStr THEN Returned(NoneVal)
    ELSE LET d == JsonLoads(content.text)
         IN  IF d.ok THEN Returned(d.value) ELSE RecoverJson(content.text)

\* The except clause around the whole body of parse_cv_with_llm.
WrapStructuringError(r) ==
    IF r.ok THEN r
    ELSE Raised(HTTPException(500,
                  <<"Error parsing CV with LLM: ">> \o StrOfException(r.exc)))

StructureCompletion(content) == WrapStructuringError(DecodeContent(content))

\* The mock data returned when no API key is set.
DemoCV ==
    DictVal(<<
      Item("name", StrVal("John Doe")),
      Item("summary", StrVal("Experienced software engineer with 5+ years in web development")),
      Item("contact", DictVal(<<
          Item("email", StrVal("john.doe@example.com")),
          Item("phone", StrVal("+1234567890")),
          Item("linkedin", StrVal("linkedin.com/in/johndoe")),
          Item("github", StrVal("github.com/johndoe")),
          Item("website", StrVal("johndoe.com")) >>)),
      Item("education", ListVal(<<
          DictVal(<<
            Item("institution", StrVal("University of Example")),
            Item("degree", StrVal("Bachelor of Science")),
            Item("field_of_study", StrVal("Computer Science")),
            Item("start_date", StrVal("2015")),
            Item("end_date", StrVal("2019")) >>) >>)),
      Item("experience", ListVal(<<
          DictVal(<<
            Item("company", StrVal("Tech Company Inc.")),
            Item("position", StrVal("Senior Software Engineer")),
            Item("start_date", StrVal("2020")),
            Item("end_date", StrVal("Present")),
            Item("description", StrVal("Developed and maintained web applications using React and Node.js")) >>) >>)),
      Item("skills", ListVal(<<
          DictVal(<<Item("name", StrVal("JavaScript")), Item("level", StrVal("Expert"))>>),
          DictVal(<<Item("name", StrVal("Python")), Item("level", StrVal("Intermediate"))>>),
          DictVal(<<Item("name", StrVal("React")), Item("level", StrVal("Advanced"))>>) >>)),
      Item("languages", ListVal(<<StrVal("English (Native)"), StrVal("Spanish (Intermediate)")>>)),
      Item("certifications", ListVal(<<StrVal("AWS Certified Developer"), StrVal("Scrum Master")>>)) >>)

\* Mutant of DemoMode: the mock data is never used.
DemoModeNever == FALSE

\* if not os.environ.get("CEREBRAS_API_KEY")
DemoMode == ~apiKey

(***************************************************************************)
(* The upload: a PDF is what PyPDF2 makes of it.  fault says where reading *)
(* it raises ("reader": PdfReader(file), "pagecount": len(reader.pages),   *)
(* "none": neither); each page yields text, yields no text ("blank") or    *)
(* raises in extract_text ("broken").                                      *)
(***************************************************************************)
PageKinds == {"text", "blank", "broken"}
Faults == {"none", "reader", "pagecount"}
Pdf(f, ps) == [fault |-> f, pages |-> ps]
Pdfs ==
    {Pdf(f, <<>>) : f \in Faults \ {"none"}}
      \cup {Pdf("none", ps) : ps \in UNION {[1..n -> PageKinds] : n \in 0..MaxPages}}

PageText(k) == IF k = "text" THEN <<"cv">> ELSE <<>>

RECURSIVE ConcatPages(_)
ConcatPages(ps) ==
    IF ps = <<>> THEN <<>> ELSE PageText(Head(ps)) \o ConcatPages(Tail(ps))

\* The with-open block of extract_text_from_pdf: the reader and the page loop.
ReadPdf(pdf) ==
    IF pdf.fault = "reader" THEN Raised(OtherException(<<"EOF marker not found">>))
    ELSE IF pdf.fault = "pagecount" THEN Raised(OtherException(<<"Could not read the page tree">>))
    ELSE IF \E i \in 1..Len(pdf.pages) : pdf.pages[i] = "broken"
         THEN Raised(OtherException(<<"Could not extract the page">>))
    ELSE Returned(StrVal(ConcatPages(pdf.pages)))

\* The except clause around the whole body of extract_text_from_pdf.
WrapExtractionError(r) ==
    IF r.ok THEN r
    ELSE Raised(HTTPException(500,
                  <<"Error extracting text from PDF: ">> \o StrOfException(r.exc)))

\* os.unlink(temp_file_path) is reached only when the with-open block returned.
UnlinkReached(r) == r.ok

(***************************************************************************)
(* Requests and responses.                                                 *)
(***************************************************************************)
Requests == 1..NumRequests
NoRequest == 0

ContentTypes == {"application/pdf", "application/PDF", "text/plain"}
NoPdf == Pdf("reader", <<>>)
\* A request that is not for a PDF carries a PDF or something else.
RequestInputs ==
    {[op |-> "parse-cv", ctype |-> "application/pdf", upload |-> u] : u \in Pdfs}
      \cup {[op |-> "parse-cv", ctype |-> ct, upload |-> u] :
               ct \in ContentTypes \ {"application/pdf"},
               u \in {NoPdf, Pdf("none", <<>>)}}
      \cup {[op |-> "health", ctype |-> "text/plain", upload |-> NoPdf]}

NoBody == [kind |-> "absent"]
NoResponse == [status |-> 0, detail |-> <<>>, body |-> NoBody]
OkResponse(v) == [status |-> 200, detail |-> <<>>, body |-> v]
\* What the framework sends for an HTTPException that leaves the handler.
ErrorResponse(e) == [status |-> e.status, detail |-> e.detail, body |-> NoBody]

\* Mutant of ContentTypeAccepted: the comparison ignores case.
ContentTypeAcceptedAnyCase(ct) == ct \in {"application/pdf", "application/PDF"}

\* if file.content_type != "application/pdf": raise ...
ContentTypeAccepted(ct) == ct = "application/pdf"
InvalidInput == HTTPException(400, <<"Only PDF files are supported">>)

\* The try/except of parse_cv around parse_cv_with_llm.
RespondStructured(r) ==
    IF r.ok THEN OkResponse(r.value)
    ELSE ErrorResponse(HTTPException(500,
           <<"Failed to process CV: ">> \o StrOfException(r.exc)
              \o <<". Please ensure the PDF is valid and not corrupted.">>))

\* The completion service: it raises, or returns a completion.
SampleTexts ==
    { <<"{", "}">>, <<"1">>, <<"J">>, <<"J", "{", "}">>,
      <<"F", "J", "N", "{", "}", "N", "F">>,
      <<"F", "J", "N", "J", "N", "F", "{", "}">> }
ServiceReplies ==
    {[raises |-> TRUE, content |-> NoContent]}
      \cup {[raises |-> FALSE, content |-> StrContent(t)] : t \in SampleTexts}

\* client.chat.completions.create(...) and the rest of parse_cv_with_llm.
CompleteAndStructure(reply) ==
    IF reply.raises
    THEN WrapStructuringError(Raised(OtherException(<<"Connection error.">>)))
    ELSE StructureCompletion(reply.content)

\* What a handler has done: the steps taken, and the failure of the step that
\* failed, if one did (its name and the message it failed with).
NoFailure == [step |-> "none", detail |-> <<>>]
Failure(st, e) == [step |-> st, detail |-> e.detail]
NoTrace ==
    [checked |-> FALSE, bodyRead |-> FALSE, tempMade |-> FALSE,
     extractCalls |-> 0, extractOk |-> FALSE, llmCalls |-> 0,
     failure |-> NoFailure]

structurerVars == <<completion, stage, outcome>>
serverVars == <<apiKey, running, pc, req, tempFiles, trace, response>>

Init ==
    /\ apiKey \in BOOLEAN
    /\ running = NoRequest
    /\ pc = [r \in Requests |-> "idle"]
    /\ req = [r \in Requests |-> [op |-> "health", ctype |-> "text/plain", upload |-> NoPdf]]
    /\ tempFiles = {}
    /\ trace = [r \in Requests |-> NoTrace]
    /\ response = [r \in Requests |-> NoResponse]
    /\ completion = NoContent
    /\ stage = "unused"
    /\ outcome = Returned(NoneVal)

\* A client sends a request; the server schedules its handler.
Arrive(r) ==
    /\ pc[r] = "idle"
    /\ \E q \in RequestInputs : req' = [req EXCEPT ![r] = q]
    /\ pc' = [pc EXCEPT ![r] = "scheduled"]
    /\ UNCHANGED <<apiKey, running, tempFiles, trace, response, structurerVars>>

\* Mutant of CheckContentType: the upload is read before its type is checked.
CheckContentTypeAfterRead(r) ==
    /\ pc[r] = "scheduled"
    /\ req[r].op = "parse-cv"
    /\ running = NoRequest
    /\ trace' = [trace EXCEPT ![r].bodyRead = TRUE, ![r].checked = TRUE]
    /\ IF ContentTypeAccepted(req[r].ctype)
       THEN /\ pc' = [pc EXCEPT ![r] = "reading"]
            /\ UNCHANGED response
       ELSE /\ pc' = [pc EXCEPT ![r] = "done"]
            /\ response' = [response EXCEPT ![r] = ErrorResponse(InvalidInput)]
    /\ UNCHANGED <<apiKey, running, req, tempFiles, structurerVars>>

\* parse_cv up to "await file.read()".
CheckContentType(r) ==
    /\ pc[r] = "scheduled"
    /\ req[r].op = "parse-cv"
    /\ running = NoRequest
    /\ trace' = [trace EXCEPT ![r].checked = TRUE]
    /\ IF ContentTypeAccepted(req[r].ctype)
       THEN /\ pc' = [pc EXCEPT ![r] = "reading"]
            /\ UNCHANGED response
       ELSE /\ pc' = [pc EXCEPT ![r] = "done"]
            /\ response' = [response EXCEPT ![r] = ErrorResponse(InvalidInput)]
    /\ UNCHANGED <<apiKey, running, req, tempFiles, structurerVars>>

\* file.read() returns; extract_text_from_pdf starts and writes the temporary
\* file (the write is taken to succeed).  From here on the coroutine does not
\* give the event loop back: PdfReader and the completion client are called
\* synchronously.
ReadUpload(r) ==
    /\ pc[r] = "reading"
    /\ running = NoRequest
    /\ trace' = [trace EXCEPT ![r].bodyRead = TRUE,
                              ![r].extractCalls = @ + 1,
                              ![r].tempMade = TRUE]
    /\ tempFiles' = tempFiles \cup {r}
    /\ pc' = [pc EXCEPT ![r] = "extracting"]
    /\ running' = r
    /\ UNCHANGED <<apiKey, req, response, structurerVars>>

\* The rest of extract_text_from_pdf, and parse_cv_with_llm up to the call of
\* the completion service.
FinishExtract(r) ==
    /\ pc[r] = "extracting"
    /\ running = r
    /\ LET x == WrapExtractionError(ReadPdf(req[r].upload))
       IN  /\ tempFiles' = IF UnlinkReached(x) THEN tempFiles \ {r} ELSE tempFiles
           /\ IF ~x.ok
              THEN /\ pc' = [pc EXCEPT ![r] = "done"]
                   /\ running' = NoRequest
                   /\ response' = [response EXCEPT ![r] = ErrorResponse(x.exc)]
                   /\ trace' = [trace EXCEPT ![r].failure = Failure("extraction", x.exc)]
              ELSE IF DemoMode
              THEN /\ pc' = [pc EXCEPT ![r] = "done"]
                   /\ running' = NoRequest
                   /\ response' = [response EXCEPT ![r] = RespondStructured(Returned(DemoCV))]
                   /\ trace' = [trace EXCEPT ![r].extractOk = TRUE]
              ELSE /\ pc' = [pc EXCEPT ![r] = "completing"]
                   /\ running' = r
                   /\ trace' = [trace EXCEPT ![r].extractOk = TRUE,
                                             ![r].llmCalls = @ + 1]
                   /\ UNCHANGED response
    /\ UNCHANGED <<apiKey, req, structurerVars>>

\* Mutant of FinishCompletion: a call that raises is made again.
FinishCompletionRetrying(r) ==
    /\ pc[r] = "completing"
    /\ running = r
    /\ \E reply \in ServiceReplies :
         LET s == CompleteAndStructure(reply)
         IN  IF reply.raises
             THEN /\ trace' = [trace EXCEPT ![r].llmCalls = @ + 1]
                  /\ UNCHANGED <<pc, running, response>>
             ELSE /\ response' = [response EXCEPT ![r] = RespondStructured(s)]
                  /\ trace' = [trace EXCEPT ![r].failure =
                                 IF s.ok THEN NoFailure ELSE Failure("structuring", s.exc)]
                  /\ pc' = [pc EXCEPT ![r] = "done"]
                  /\ running' = NoRequest
    /\ UNCHANGED <<apiKey, req, tempFiles, structurerVars>>

\* The completion service answers; the rest of parse_cv_with_llm and parse_cv.
FinishCompletion(r) ==
    /\ pc[r] = "completing"
    /\ running = r
    /\ \E reply \in ServiceReplies :
         LET s == CompleteAndStructure(reply)
         IN  /\ response' = [response EXCEPT ![r] = RespondStructured(s)]
             /\ trace' = [trace EXCEPT ![r].failure =
                            IF s.ok THEN NoFailure ELSE Failure("structuring", s.exc)]
    /\ pc' = [pc EXCEPT ![r] = "done"]
    /\ running' = NoRequest
    /\ UNCHANGED <<apiKey, req, tempFiles, structurerVars>>

\* GET /health
HealthCheck(r) ==
    /\ pc[r] = "scheduled"
    /\ req[r].op = "health"
    /\ running = NoRequest
    /\ pc' = [pc EXCEPT ![r] = "done"]
    /\ response' = [response EXCEPT ![r] =
                      OkResponse(DictVal(<<Item("status", StrVal("healthy"))>>))]
    /\ UNCHANGED <<apiKey, running, req, tempFiles, trace, structurerVars>>

\* One step of request r's handler.
Step(r) ==
    \/ CheckContentType(r)
    \/ ReadUpload(r)
    \/ FinishExtract(r)
    \/ FinishCompletion(r)
    \/ HealthCheck(r)

Next == \E r \in Requests : Arrive(r) \/ Step(r)

Spec == Init /\ [][Next]_vars

(***************************************************************************)
(* The structurer alone, on every completion of at most MaxLen tokens.     *)
(***************************************************************************)
Texts == UNION {[1..n -> Alphabet] : n \in 0..MaxLen}

InitStructurer ==
    /\ apiKey = TRUE
    /\ running = NoRequest
    /\ pc = [r \in Requests |-> "idle"]
    /\ req = [r \in Requests |-> [op |-> "health", ctype |-> "text/plain", upload |-> NoPdf]]
    /\ tempFiles = {}
    /\ trace = [r \in Requests |-> NoTrace]
    /\ response = [r \in Requests |-> NoResponse]
    /\ completion \in {NoContent} \cup {StrContent(t) : t \in Texts}
    /\ stage = "input"
    /\ outcome = Returned(NoneVal)

Structure ==
    /\ stage = "input"
    /\ stage' = "done"
    /\ outcome' = StructureCompletion(completion)
    /\ UNCHANGED <<completion, serverVars>>

NextStructurer == Structure

SpecStructurer == InitStructurer /\ [][NextStructurer]_vars

(***************************************************************************)
(* Properties.                                                             *)
(***************************************************************************)
IsParse(r) == req[r].op = "parse-cv"
Done(r) == pc[r] = "done"
\* extract_text_from_pdf was entered and has returned or raised.
ExtractorLeft(r) == trace[r].extractCalls > 0 /\ pc[r] # "extracting"
Contains(s, sub) ==
    \E i \in 1..(Len(s) + 1) : MatchAt(s, i, sub)
HintPrefix == "Failed to process CV: "
HintSuffix == ". Please ensure the PDF is valid and not corrupted."

\* C1: every parse-cv request whose extraction or structuring step failed is
\* answered with status 500 and the message "Failed to process CV: {detail}.
\* Please ensure the PDF is valid and not corrupted.", {detail} holding the
\* message the failed step failed with.
C1_FailureIsWrapped ==
    \A r \in Requests :
        (Done(r) /\ IsParse(r) /\ trace[r].failure.step # "none") =>
            LET d == response[r].detail
            IN  /\ response[r].status = 500
                /\ Len(d) >= 2
                /\ d[1] = HintPrefix
                /\ d[Len(d)] = HintSuffix
                /\ Contains(SubSeq(d, 2, Len(d) - 1), trace[r].failure.detail)

\* C2 as stated: a parse-cv request whose content type is not exactly
\* application/pdf is answered with a 400-class status and the message
\* "Only PDF files are supported." with its final period.
C2_RejectedWithPeriod ==
    \A r \in Requests :
        (Done(r) /\ IsParse(r) /\ req[r].ctype # "application/pdf") =>
            /\ response[r].status \in 400..499
            /\ response[r].detail = <<"Only PDF files are supported.">>

\* C2 as amended: a parse-cv request whose content type is not exactly
\* application/pdf is answered with status 400 and the message
\* "Only PDF files are supported", which has no final period.
C2_RejectedNoPeriod ==
    \A r \in Requests :
        (Done(r) /\ IsParse(r) /\ req[r].ctype # "application/pdf") =>
            /\ response[r].status = 400
            /\ response[r].detail = <<"Only PDF files are supported">>

C2_Witness ==
    \E r \in Requests :
        /\ Done(r) /\ IsParse(r)
        /\ req[r].ctype = "application/PDF"
        /\ response[r].status = 400

\* C3: once the text extractor has returned or raised, the temporary file it
\* created no longer exists.
C3_TempFileRemoved ==
    \A r \in Requests : ExtractorLeft(r) => r \notin tempFiles

\* C4: for a completion that is a string and does not decode directly, the
\* structurer's outcome is that of the reference chain: the json fence, the
\* untagged fence, the braces, each skipped when it finds nothing or its
\* candidate does not decode; the first candidate that decodes is returned,
\* and the structurer fails only when none does.
ReferenceChain(text) ==
    LET cands == <<SearchJsonFence(text), SearchPlainFence(text), SearchBraces(text)>>
        good == {i \in 1..3 : cands[i].found /\ JsonLoads(cands[i].group).ok}
    IN  IF good = {} THEN [ok |-> FALSE, value |-> NoneVal]
        ELSE [ok |-> TRUE, value |-> JsonLoads(cands[Min(good)].group).value]

C4_RecoveryChain ==
    (stage = "done" /\ completion.isStr /\ ~JsonLoads(completion.text).ok) =>
        LET ref == ReferenceChain(completion.text)
        IN  /\ outcome.ok = ref.ok
            /\ outcome.ok => outcome.value = ref.value

\* C5: with no credential configured, every parse-cv request for a PDF whose
\* text extraction succeeded is answered 200 with the fixed demo CV, and no
\* request calls the completion service.
C5_DemoMode ==
    ~apiKey =>
        \A r \in Requests :
            /\ trace[r].llmCalls = 0
            /\ (Done(r) /\ IsParse(r) /\ req[r].ctype = "application/pdf"
                  /\ trace[r].extractOk) =>
                   response[r] = OkResponse(DemoCV)

\* Two requests with different extracted texts, both answered with the demo CV.
C5_Witness ==
    /\ ~apiKey
    /\ \E r1, r2 \in Requests :
          /\ Done(r1) /\ Done(r2)
          /\ trace[r1].extractOk /\ trace[r2].extractOk
          /\ ConcatPages(req[r1].upload.pages) # ConcatPages(req[r2].upload.pages)
          /\ response[r1].body = DemoCV /\ response[r2].body = DemoCV

\* C6: the text extractor fails for every input that is not a readable PDF
\* with at least one page; for a zero-page document it never returns a string.
C6_ZeroPagesFail ==
    \A r \in Requests :
        (ExtractorLeft(r) /\ trace[r].extractOk) =>
            /\ req[r].upload.fault = "none"
            /\ Len(req[r].upload.pages) > 0

\* C7: every 200 response of parse-cv carries a mapping.
C7_BodyIsMapping ==
    \A r \in Requests :
        (Done(r) /\ IsParse(r) /\ response[r].status = 200) =>
            IsMapping(response[r].body)

\* C8: a parse-cv request whose content type is rejected never reads the
\* upload, creates a temporary file, enters the extractor or calls the
\* completion service; each of these happens only after the content type was
\* checked and found to be application/pdf.
C8_CheckFirst ==
    \A r \in Requests :
        LET t == trace[r]
            processed == t.bodyRead \/ t.tempMade \/ t.extractCalls > 0
                           \/ t.llmCalls > 0 \/ r \in tempFiles
        IN  /\ (IsParse(r) /\ pc[r] # "idle" /\ req[r].ctype # "application/pdf")
                  => ~processed
            /\ response[r].status = 400 => ~processed
            /\ processed => (t.checked /\ req[r].ctype = "application/pdf")

C8_Witness ==
    \E r, r2 \in Requests :
        /\ Done(r) /\ IsParse(r) /\ response[r].status = 400
        /\ req[r].upload = Pdf("none", <<>>)
        /\ trace[r] = [NoTrace EXCEPT !.checked = TRUE]
        /\ r2 # r /\ trace[r2].bodyRead

\* C9: while one request is inside the PDF-to-text step or the completion
\* call, every other request in flight can take its next step.
C9_OthersProgress ==
    \A r, r2 \in Requests :
        (r # r2 /\ pc[r] \in {"extracting", "completing"}
           /\ pc[r2] \in {"scheduled", "reading"}) =>
            ENABLED Step(r2)

\* C10: a request enters the text extractor at most once and calls the
\* completion service at most once, and calls it only after the extraction
\* succeeded.
C10_NoRetry ==
    \A r \in Requests :
        /\ trace[r].extractCalls <= 1
        /\ trace[r].llmCalls <= 1
        /\ trace[r].llmCalls > 0 => (trace[r].extractOk /\ trace[r].extractCalls = 1)

\* A request that failed in the completion service after one call, and one that
\* failed in the extractor without any.
C10_Witness ==
    \E r, r2 \in Requests :
        /\ Done(r) /\ trace[r].failure.step = "structuring"
        /\ trace[r].llmCalls = 1 /\ trace[r].extractCalls = 1
        /\ Done(r2) /\ trace[r2].failure.step = "extraction"
        /\ trace[r2].llmCalls = 0 /\ trace[r2].extractCalls = 1

====
